---- MODULE Spec2Model ----
(***************************************************************************)
(* chord_analyzer (src/main.rs): window -> FFT magnitudes -> smoothing ->  *)
(* peak picking -> ranking -> frequency mapping -> analyze_chord ->        *)
(* get_note.                                                               *)
(*                                                                         *)
(* Number representation.  Frequencies are whole Hz (the sample rate is a  *)
(* multiple of the transform length, so every bin frequency i/N*rate is an *)
(* integer).  NaN is the value NaN below.  log2 and round are computed     *)
(* exactly on ratios of integers: floor(log2) by repeated doubling and the *)
(* rounded semitone by comparing the ratio with the twelve irrational      *)
(* half-semitone boundaries 2^((2k-1)/24), tabulated to 1e-5.              *)
(* Magnitudes are multiples of 3 so that the 3-tap mean is exact.          *)
(* Rust sequences are 0-based; sequence index k+1 holds element k.         *)
(***************************************************************************)
EXTENDS Integers, Sequences, FiniteSets, TLC

VARIABLES
    pc,             \* position in main / in the function under study
    samples_len,    \* samples.len() = input.len(), the transform length N
    sample_rate,    \* spec.sample_rate
    input_mag,      \* input.iter().map(|x| x.norm()): the N FFT magnitudes
    output,         \* the working spectrum `output`
    peaks,          \* Vec<(usize, f64)> of main
    main_freq,      \* Vec<f64> handed to analyze_chord
    root_freq,      \* analyze_chord: root_freq
    kept,           \* analyze_chord: the filtered `peaks`
    distances,      \* analyze_chord: distances after sort and dedup
    chord,          \* the String analyze_chord returns
    freq,           \* get_note: its argument
    note,           \* get_note: its result
    hamming_window  \* get_wave: hamming_window

vars == <<pc, samples_len, sample_rate, input_mag, output, peaks, main_freq,
          root_freq, kept, distances, chord, freq, note, hamming_window>>

-----------------------------------------------------------------------------
(* Bounds of the model *)

MaxCand == 4          \* longest candidate list drawn for analyze_chord
MaxNoteHz == 1000     \* get_note is applied to 1..MaxNoteHz Hz
MaxWinLen == 64       \* longest sample sequence windowed
MaxBins == 7          \* longest half spectrum drawn exhaustively
MaxDetected == 9      \* most peaks planted in a constructed spectrum

(* Program constants *)

TopPeaks == 8         \* peaks.truncate(8)
CutoffBins == 20000   \* output.truncate(20000)
RefHz == 440          \* freq / 440.0
RefOctave == 4        \* 4f64 + ...

-----------------------------------------------------------------------------
(* f64 helpers *)

NaN == -1             \* 0.0/0.0; every real frequency of the model is >= 0

I32Min == -2147483647 - 1     \* (-inf) as i32

LogScale == 100000

\* 2^((2k-1)/24) * LogScale for k = 1..12: a ratio at or above entry k is at
\* least k - 1/2 semitones
SemitoneBounds ==
    <<102930, 109051, 115535, 122405, 129684, 137395,
      145565, 154221, 163392, 173107, 183401, 194306>>

Pow2(n) == 2 ^ n

Range(s) == {s[k] : k \in 1..Len(s)}

RECURSIVE FloorLog2(_, _)
\* floor(log2(num/den)) for num, den > 0
FloorLog2(num, den) ==
    IF num < den THEN FloorLog2(2 * num, den) - 1
    ELSE IF num >= 2 * den THEN FloorLog2(num, 2 * den) + 1
    ELSE 0

\* (x.log2() * 12).round() for x = num/den > 0.  No ratio of integers lies
\* exactly on a half-semitone boundary, so round's tie rule never applies.
\* With o = floor(log2(x)), x / 2^o >= b  iff  floor(num * S / 2^o) >= b * S * den
\* for the integer b * S.
Round12Log2(num, den) ==
    LET o == FloorLog2(num, den)
        n == IF o < 0 THEN (num * Pow2(-o)) * LogScale
                      ELSE (num * LogScale) \div Pow2(o)
    IN 12 * o + Cardinality({k \in 1..12 : n >= SemitoneBounds[k] * den})

\* v.min(m) of f64: the other operand when one is NaN
FMin(v, m) ==
    IF m = NaN THEN v ELSE IF v = NaN THEN m ELSE IF v < m THEN v ELSE m

RECURSIVE FoldMin(_, _)
\* peaks.iter().fold(acc, |m, v| v.min(m))
FoldMin(s, acc) ==
    IF s = <<>> THEN acc ELSE FoldMin(Tail(s), FMin(Head(s), acc))

-----------------------------------------------------------------------------
(* get_note *)

notes == <<"A", "A#", "B", "C", "C#", "D", "D#", "E", "F", "F#", "G", "G#">>

\* (4f64 + (freq / 440.0).log2()) as i32: the cast truncates toward zero and
\* saturates; NaN becomes 0.  4 + log2(f/440) = log2(f * 2^4 / 440).
Octave(f) ==
    IF f = NaN THEN 0
    ELSE IF f = 0 THEN I32Min
    ELSE LET num == f * Pow2(RefOctave)
             o == FloorLog2(num, RefHz)
         IN IF o < 0 /\ num * Pow2(-o) # RefHz THEN o + 1 ELSE o

\* ((4f64 + (freq / 440.0).log2()) * 12f64).round() as usize % 12: the cast
\* sends negative values, -inf and NaN to 0
NoteIndex(f) ==
    IF f = NaN \/ f = 0 THEN 0
    ELSE LET r == Round12Log2(f * Pow2(RefOctave), RefHz)
         IN (IF r < 0 THEN 0 ELSE r) % 12

get_note(f) == notes[NoteIndex(f) + 1] \o ToString(Octave(f))

-----------------------------------------------------------------------------
(* analyze_chord *)

chord_map ==
    {<< <<0, 4, 7>>, "major" >>,
     << <<0, 3, 7>>, "minor" >>,
     << <<0, 4, 7, 10>>, "seventh" >>,
     << <<0, 4, 7, 11>>, "major_seventh" >>,
     << <<0, 3, 7, 10>>, "minor_seventh" >>,
     << <<0, 3, 7, 11>>, "minor_major_seventh" >>,
     << <<0, 4, 8>>, "augmented" >>,
     << <<0, 3, 6>>, "diminished" >>,
     << <<0, 3, 6, 9>>, "diminished_seventh" >>,
     << <<0, 3, 6, 10>>, "minor_seventh_flat_five" >>}

\* variant: the fold starts from 0.0 instead of NaN
RootOfFromZero(ps) == FoldMin(ps, 0)

\* peaks.iter().fold(0.0/0.0, |m, v| v.min(m))
RootOf(ps) == FoldMin(ps, NaN)

\* variant: the octave itself passes the filter (<= instead of <)
BelowOrAtOctave(x, root) == root # NaN /\ x <= root * 2

\* **x < root_freq * 2.0; every comparison with NaN is false
BelowOctave(x, root) == root # NaN /\ x < root * 2

\* peaks.iter().filter(|x| **x < root_freq * 2.0)
Retained(ps, root) == SelectSeq(ps, LAMBDA x : BelowOctave(x, root))

\* ((x / root_freq).log2() * 12f64).round() as i32
Distance(x, root) == Round12Log2(x, root)

RECURSIVE InsertAsc(_, _)
InsertAsc(s, x) ==
    IF s = <<>> THEN <<x>>
    ELSE IF x < Head(s) THEN <<x>> \o s
    ELSE <<Head(s)>> \o InsertAsc(Tail(s), x)

RECURSIVE SortAsc(_)
\* distances.sort()
SortAsc(s) == IF s = <<>> THEN <<>> ELSE InsertAsc(SortAsc(Tail(s)), Head(s))

RECURSIVE Dedup(_)
\* distances.dedup(): drops consecutive repeats
Dedup(s) ==
    IF Len(s) <= 1 THEN s
    ELSE IF s[1] = s[2] THEN Dedup(Tail(s))
    ELSE <<s[1]>> \o Dedup(Tail(s))

DistancesOf(ks, root) ==
    Dedup(SortAsc([k \in 1..Len(ks) |-> Distance(ks[k], root)]))

\* variant: a row matches when all of its offsets occur among the distances
ChordNameSubset(ds) ==
    IF \E e \in chord_map : Range(e[1]) \subseteq Range(ds)
    THEN (CHOOSE e \in chord_map : Range(e[1]) \subseteq Range(ds))[2]
    ELSE ""

\* match chord_map.get(&distances)
ChordName(ds) ==
    IF \E e \in chord_map : e[1] = ds
    THEN (CHOOSE e \in chord_map : e[1] = ds)[2]
    ELSE ""

\* format!("{} {}", get_note(root_freq), name)
analyze_chord(ps) ==
    LET root == RootOf(ps)
    IN get_note(root) \o " " \o ChordName(DistancesOf(Retained(ps, root), root))

-----------------------------------------------------------------------------
(* analyze_chord applied to drawn candidate lists *)

\* candidate frequencies: 440 Hz and tones 2, 3, 4, 6, 7, 8, 9, 10, 11
\* semitones above it, 870 Hz (a quarter tone short of the octave) and 880 Hz
CandFreqs == {440, 494, 523, 554, 622, 659, 698, 740, 784, 831, 870, 880}

\* lists of distinct frequencies, in any order
CandLists ==
    UNION {{s \in [1..n -> CandFreqs] : Cardinality(Range(s)) = n} : n \in 0..MaxCand}

Idle ==
    /\ samples_len = 0
    /\ sample_rate = 0
    /\ input_mag = <<>>
    /\ output = <<>>
    /\ peaks = <<>>

NoChord ==
    /\ root_freq = NaN
    /\ kept = <<>>
    /\ distances = <<>>
    /\ chord = ""

NoNote == freq = NaN /\ note = ""

InitChord ==
    /\ pc = "classify"
    /\ main_freq \in CandLists
    /\ Idle
    /\ NoChord
    /\ NoNote
    /\ hamming_window = <<>>

\* the body of analyze_chord on the list ps
Analyzed(ps) ==
    /\ root_freq' = RootOf(ps)
    /\ kept' = Retained(ps, root_freq')
    /\ distances' = DistancesOf(kept', root_freq')
    /\ chord' = analyze_chord(ps)

\* println!(..., analyze_chord(main_freq))
Classify ==
    /\ pc = "classify"
    /\ pc' = "done"
    /\ Analyzed(main_freq)
    /\ UNCHANGED <<samples_len, sample_rate, input_mag, output, peaks, main_freq,
                   freq, note, hamming_window>>

InsertAt(s, k, x) == SubSeq(s, 1, k) \o <<x>> \o SubSeq(s, k + 1, Len(s))

RemoveAt(s, k) == SubSeq(s, 1, k - 1) \o SubSeq(s, k + 1, Len(s))

\* analyze_chord called again with one more candidate at or above 2 * root
AddOctave ==
    /\ pc = "done"
    /\ root_freq # NaN
    /\ Len(main_freq) < MaxCand
    /\ \E f \in CandFreqs \ Range(main_freq), k \in 0..Len(main_freq) :
          /\ f >= 2 * root_freq
          /\ main_freq' = InsertAt(main_freq, k, f)
    /\ Analyzed(main_freq')
    /\ UNCHANGED <<pc, samples_len, sample_rate, input_mag, output, peaks,
                   freq, note, hamming_window>>

\* analyze_chord called again with one candidate at or above 2 * root removed
RemoveOctave ==
    /\ pc = "done"
    /\ root_freq # NaN
    /\ \E k \in 1..Len(main_freq) :
          /\ main_freq[k] >= 2 * root_freq
          /\ main_freq' = RemoveAt(main_freq, k)
    /\ Analyzed(main_freq')
    /\ UNCHANGED <<pc, samples_len, sample_rate, input_mag, output, peaks,
                   freq, note, hamming_window>>

NextChord == Classify \/ AddOctave \/ RemoveOctave

SpecChord == InitChord /\ [][NextChord]_vars

-----------------------------------------------------------------------------
(* get_note applied to drawn frequencies *)

InitNote ==
    /\ pc = "get_note"
    /\ freq \in 1..MaxNoteHz
    /\ note = ""
    /\ main_freq = <<>>
    /\ Idle
    /\ NoChord
    /\ hamming_window = <<>>

GetNote ==
    /\ pc = "get_note"
    /\ pc' = "done"
    /\ note' = get_note(freq)
    /\ UNCHANGED <<samples_len, sample_rate, input_mag, output, peaks, main_freq,
                   root_freq, kept, distances, chord, freq, hamming_window>>

NextNote == GetNote

SpecNote == InitNote /\ [][NextNote]_vars

-----------------------------------------------------------------------------
(* get_wave: the Hamming window, in units of 1/WinScale *)

WinScale == 10000

\* cos(x) for 0 <= x <= pi/2, x and the result in units of 1/WinScale: the
\* series 1 - x^2/2 (1 - x^2/12 (1 - x^2/30 (1 - x^2/56 (1 - x^2/90))))
CosQuadrant(x) ==
    LET x2 == (x * x) \div WinScale
        t5 == WinScale - x2 \div 90
        t4 == WinScale - ((x2 * t5) \div WinScale) \div 56
        t3 == WinScale - ((x2 * t4) \div WinScale) \div 30
        t2 == WinScale - ((x2 * t3) \div WinScale) \div 12
    IN WinScale - ((x2 * t2) \div WinScale) \div 2

\* (2.0 * PI * i as f64 / n as f64).cos() for 0 <= i < n, by the reductions
\* cos(2 pi - x) = cos(x) and cos(pi - x) = -cos(x); 31416 = pi * WinScale
CosTurn(i, n) ==
    LET r == IF 2 * i > n THEN n - i ELSE i
    IN IF 4 * r > n
       THEN -CosQuadrant((31416 * (n - 2 * r)) \div n)
       ELSE CosQuadrant((2 * 31416 * r) \div n)

\* variant: the sample index is taken 1-based
HammingShifted(i, n) == 5400 - (4600 * CosTurn((i + 1) % n, n)) \div WinScale

\* 0.54 - 0.46 * (2.0 * PI * i as f64 / samples.len() as f64).cos()
Hamming(i, n) == 5400 - (4600 * CosTurn(i, n)) \div WinScale

InitWindow ==
    /\ pc = "get_wave"
    /\ samples_len \in 1..MaxWinLen
    /\ hamming_window = <<>>
    /\ sample_rate = 0
    /\ input_mag = <<>>
    /\ output = <<>>
    /\ peaks = <<>>
    /\ main_freq = <<>>
    /\ NoChord
    /\ NoNote

\* (0..samples.len()).map(|i| ...).collect()
Window ==
    /\ pc = "get_wave"
    /\ pc' = "done"
    /\ hamming_window' = [k \in 1..samples_len |-> Hamming(k - 1, samples_len)]
    /\ UNCHANGED <<samples_len, sample_rate, input_mag, output, peaks, main_freq,
                   root_freq, kept, distances, chord, freq, note>>

NextWindow == Window

SpecWindow == InitWindow /\ [][NextWindow]_vars

-----------------------------------------------------------------------------
(* main: from the FFT magnitudes to the printed chord *)

Min2(a, b) == IF a < b THEN a ELSE b

\* vec.truncate(n)
Truncate(s, n) == SubSeq(s, 1, Min2(Len(s), n))

\* (x + y + z) / 3.0 over output, output.skip(1), output.skip(2)
Smoothed(s) ==
    [j \in 1..(IF Len(s) < 2 THEN 0 ELSE Len(s) - 2) |->
        (s[j] + s[j + 1] + s[j + 2]) \div 3]

\* the filter_map closure: (i, x), y, z are elements i, i+1, i+2 of output
IsPeak(s, i) == s[i + 2] > s[i + 1] /\ s[i + 2] > s[i + 3]

\* enumerate().zip(skip(1)).zip(skip(2)).filter_map(...): Some((i, *y))
PeaksOf(s) ==
    LET idx == [j \in 1..(IF Len(s) < 2 THEN 0 ELSE Len(s) - 2) |-> j - 1]
        hit == SelectSeq(idx, LAMBDA i : IsPeak(s, i))
    IN [k \in 1..Len(hit) |-> <<hit[k], s[hit[k] + 2]>>]

RECURSIVE InsertDesc(_, _)
\* p goes after every element whose magnitude is not smaller (stable)
InsertDesc(s, p) ==
    IF s = <<>> THEN <<p>>
    ELSE IF p[2] > Head(s)[2] THEN <<p>> \o s
    ELSE <<Head(s)>> \o InsertDesc(Tail(s), p)

RECURSIVE SortByMagDesc(_)
\* peaks.sort_by(|a, b| b.1.partial_cmp(&a.1).unwrap())
SortByMagDesc(s) ==
    IF s = <<>> THEN <<>>
    ELSE InsertDesc(SortByMagDesc(SubSeq(s, 1, Len(s) - 1)), s[Len(s)])

\* variant: truncate(8) before sort_by
RankedAfterCut(ps) == SortByMagDesc(Truncate(ps, TopPeaks))

\* sort_by followed by truncate(8)
Ranked(ps) == Truncate(SortByMagDesc(ps), TopPeaks)

\* x.0 as f64 / input.len() as f64 * spec.sample_rate as f64
FreqOfBin(i, n, rate) == (i * rate) \div n

FreqsOf(ps, n, rate) == [k \in 1..Len(ps) |-> FreqOfBin(ps[k][1], n, rate)]

\* output.truncate(output.len() / 2)
TruncateHalf ==
    /\ pc = "truncate"
    /\ pc' = "cutoff"
    /\ output' = Truncate(output, Len(output) \div 2)
    /\ UNCHANGED <<samples_len, sample_rate, input_mag, peaks, main_freq,
                   root_freq, kept, distances, chord, freq, note, hamming_window>>

\* output.truncate(20000)
TruncateCutoff ==
    /\ pc = "cutoff"
    /\ pc' = "smooth"
    /\ output' = Truncate(output, CutoffBins)
    /\ UNCHANGED <<samples_len, sample_rate, input_mag, peaks, main_freq,
                   root_freq, kept, distances, chord, freq, note, hamming_window>>

Smooth ==
    /\ pc = "smooth"
    /\ pc' = "peaks"
    /\ output' = Smoothed(output)
    /\ UNCHANGED <<samples_len, sample_rate, input_mag, peaks, main_freq,
                   root_freq, kept, distances, chord, freq, note, hamming_window>>

FindPeaks ==
    /\ pc = "peaks"
    /\ pc' = "rank"
    /\ peaks' = PeaksOf(output)
    /\ UNCHANGED <<samples_len, sample_rate, input_mag, output, main_freq,
                   root_freq, kept, distances, chord, freq, note, hamming_window>>

Rank ==
    /\ pc = "rank"
    /\ pc' = "map"
    /\ peaks' = Ranked(peaks)
    /\ UNCHANGED <<samples_len, sample_rate, input_mag, output, main_freq,
                   root_freq, kept, distances, chord, freq, note, hamming_window>>

MapFreq ==
    /\ pc = "map"
    /\ pc' = "classify"
    /\ main_freq' = FreqsOf(peaks, samples_len, sample_rate)
    /\ UNCHANGED <<samples_len, sample_rate, input_mag, output, peaks,
                   root_freq, kept, distances, chord, freq, note, hamming_window>>

Next ==
    \/ TruncateHalf
    \/ TruncateCutoff
    \/ Smooth
    \/ FindPeaks
    \/ Rank
    \/ MapFreq
    \/ Classify

(* The magnitudes of the transform of a real signal: bins 1..N-1 mirror. *)

RECURSIVE Reverse(_)
Reverse(s) == IF s = <<>> THEN <<>> ELSE Reverse(Tail(s)) \o <<Head(s)>>

\* half spectrum m (bins 0..L-1), bin L of magnitude e, then the mirror image;
\* N = 2L, or 2L+1 when odd
Hermitian(m, e, odd) ==
    m \o <<e>> \o (IF odd THEN <<e>> ELSE <<>>) \o Reverse(Tail(m))

MagSet == {0, 3, 6}

\* Hz per bin: the sample rate is samples_len times one of these
BinWidths == {110}

\* the state at line 126, after get_wave and the transform
AfterTransform(mag) ==
    /\ pc = "truncate"
    /\ input_mag = mag
    /\ output = mag
    /\ samples_len = Len(mag)
    /\ sample_rate \in {Len(mag) * w : w \in BinWidths}
    /\ hamming_window = [k \in 1..Len(mag) |-> Hamming(k - 1, Len(mag))]
    /\ peaks = <<>>
    /\ main_freq = <<>>
    /\ NoChord
    /\ NoNote

\* every spectrum of up to MaxBins bins over MagSet
Init ==
    \E L \in 1..MaxBins : \E m \in [1..L -> MagSet], e \in MagSet, odd \in BOOLEAN :
        AfterTransform(Hermitian(m, e, odd))

Spec == Init /\ [][Next]_vars

(* Spectra with n planted peaks: the smoothed spectrum alternates between a  *)
(* floor and floor + p[k].                                                    *)

PeakMags == {1, 2}

RECURSIVE Planted(_, _)
\* the spectrum of j bins whose 3-tap means are 30, 30+p[1], 30, 30+p[2], ...
Planted(p, j) ==
    IF j <= 3 THEN [k \in 1..j |-> 30]
    ELSE LET m == Planted(p, j - 1)
             up == IF j % 2 = 0 THEN p[(j - 2) \div 2] ELSE -p[(j - 3) \div 2]
         IN Append(m, m[j - 3] + 3 * up)

InitRank ==
    \E n \in 0..MaxDetected : \E p \in [1..n -> PeakMags] :
        LET m == Planted(p, 2 * n + 3)
        IN /\ \A k \in 1..Len(m) : m[k] >= 0
           /\ AfterTransform(Hermitian(m, 0, FALSE))

SpecRank == InitRank /\ [][Next]_vars

-----------------------------------------------------------------------------
(* Properties *)

\* the least element of a non-empty list
MinOf(ps) == CHOOSE f \in Range(ps) : \A g \in Range(ps) : f <= g

\* the chord table of the specification, keyed by offset sets
TemplateTable ==
    {<<{0, 4, 7}, "major">>, <<{0, 3, 7}, "minor">>, <<{0, 4, 7, 10}, "seventh">>,
     <<{0, 4, 7, 11}, "major_seventh">>, <<{0, 3, 7, 10}, "minor_seventh">>,
     <<{0, 3, 7, 11}, "minor_major_seventh">>, <<{0, 4, 8}, "augmented">>,
     <<{0, 3, 6}, "diminished">>, <<{0, 3, 6, 9}, "diminished_seventh">>,
     <<{0, 3, 6, 10}, "minor_seventh_flat_five">>}

\* the offsets round(12 * log2(f / root)) of the candidates below 2 * root
OffsetSet(ps) ==
    {Round12Log2(f, MinOf(ps)) : f \in {g \in Range(ps) : g < 2 * MinOf(ps)}}

QualityOf(offsets) ==
    IF \E t \in TemplateTable : t[1] = offsets
    THEN (CHOOSE t \in TemplateTable : t[1] = offsets)[2]
    ELSE ""

\* C1: for a non-empty list of positive candidates analyze_chord returns the
\* note name of the minimum candidate, a space, and the quality of the table
\* row whose key is exactly the set of offsets of the retained candidates,
\* or the empty quality when no row has exactly that key.
C1_ExactTemplateMatch ==
    pc = "done" /\ main_freq # <<>> =>
        chord = get_note(MinOf(main_freq)) \o " " \o QualityOf(OffsetSet(main_freq))

\* an A major triad, in the order 554, 440, 659, was classified
C1_Witness ==
    pc = "done" /\ main_freq = <<554, 440, 659>> /\ chord = "A4 major"

\* C2: exactly the candidates below 2 * root are kept, and calling
\* analyze_chord again with a candidate >= 2 * root added or removed returns
\* the same string.
C2_OctaveRemoval ==
    /\ [](pc = "done" /\ main_freq # <<>> =>
            \A k \in 1..Len(main_freq) :
                (main_freq[k] \in Range(kept)) <=> (main_freq[k] < 2 * MinOf(main_freq)))
    /\ [][pc = "done" /\ pc' = "done" /\ main_freq' # main_freq => chord' = chord]_vars

\* {440, 880, 554, 659} was classified, 880 dropped
C2_Witness ==
    /\ pc = "done"
    /\ Range(main_freq) = {440, 880, 554, 659}
    /\ Range(kept) = {440, 554, 659}
    /\ chord = "A4 major"

OctaveNumbers == -5..10

NoteNames == {notes[k] \o ToString(o) : k \in 1..12, o \in OctaveNumbers}

\* C8: on an empty list and on a single positive candidate analyze_chord
\* completes and returns a note name followed by an empty quality; for a
\* single candidate f the note name is get_note(f).
C8_BareNote ==
    /\ pc = "classify" /\ Len(main_freq) <= 1 => ENABLED Classify
    /\ pc = "done" /\ Len(main_freq) <= 1 =>
          /\ \E nn \in NoteNames : chord = nn \o " "
          /\ Len(main_freq) = 1 => chord = get_note(main_freq[1]) \o " "

\* the empty list was classified
C8_Witness == pc = "done" /\ main_freq = <<>> /\ chord = "A0 "

\* C10: the lookup key is strictly ascending, starts with 0 and every offset
\* lies in 0..11.
C10_OffsetsWithinOctave ==
    pc = "done" /\ main_freq # <<>> =>
        /\ distances # <<>>
        /\ distances[1] = 0
        /\ \A k \in 1..(Len(distances) - 1) : distances[k] < distances[k + 1]
        /\ \A k \in 1..Len(distances) : distances[k] \in 0..11

\* C5: get_note(f) is the pitch class at index round(12 * (4 + log2(f/440)))
\* mod 12 (non-negative modulo) followed by floor(4 + log2(f/440)), also
\* when 4 + log2(f/440) is negative.
C5_NoteFormula ==
    pc = "done" /\ freq # NaN =>
        note = notes[(Round12Log2(freq * Pow2(RefOctave), RefHz) % 12) + 1]
                 \o ToString(FloorLog2(freq * Pow2(RefOctave), RefHz))

\* C7 as stated: the coefficients lie in [0.08, 1.0] and c(i) = c(N-1-i).
C7_WindowSymmetric ==
    pc = "done" /\ hamming_window # <<>> =>
        \A k \in 1..samples_len :
            /\ hamming_window[k] >= 5400 - 4600
            /\ hamming_window[k] <= 5400 + 4600
            /\ hamming_window[k] = hamming_window[samples_len + 1 - k]

\* C7 as amended: the coefficients lie in [0.08, 1.0] and c(i) = c(N-i) for
\* 1 <= i <= N-1, to the resolution 1/WinScale.
C7_WindowPeriodic ==
    pc = "done" /\ hamming_window # <<>> =>
        /\ \A k \in 1..samples_len :
              hamming_window[k] >= 5400 - 4600 /\ hamming_window[k] <= 5400 + 4600
        /\ \A i \in 1..(samples_len - 1) :
              hamming_window[i + 1] = hamming_window[samples_len - i + 1]

\* the window of four samples: 0.08, 0.54, 1.0, 0.54
C7_Witness ==
    pc = "done" /\ samples_len = 4 /\ hamming_window = <<800, 5400, 10000, 5400>>

\* the spectrum the peak extractor works on (lines 129 and 132)
Spectrum == Truncate(Truncate(input_mag, Len(input_mag) \div 2), CutoffBins)

\* bin b (0-based) is the only non-zero bin of the spectrum
SingleBin(b) ==
    /\ Spectrum[b + 1] > 0
    /\ \A k \in 1..Len(Spectrum) : k # b + 1 => Spectrum[k] = 0

\* C3: a spectrum with a single non-zero bin b, not at the edge (the 3-tap
\* mean centred on b has a mean on either side), yields exactly one peak, at
\* bin b.
C3_SinglePeakFound ==
    pc = "rank" =>
        \A b \in 2..(Len(Spectrum) - 3) :
            SingleBin(b) => Len(peaks) = 1 /\ peaks[1][1] = b

\* three times the 3-tap mean centred on bin b (0-based) of the spectrum
Sum3(b) == Spectrum[b] + Spectrum[b + 1] + Spectrum[b + 2]

\* the bins whose 3-tap mean exceeds the means centred on both neighbours
CentreBins ==
    {b \in 2..(Len(Spectrum) - 3) : Sum3(b) > Sum3(b - 1) /\ Sum3(b) > Sum3(b + 1)}

\* C4: the frequencies handed to the classifier are b / N * sampleRate for
\* the original bins b of the smoothed strict local maxima (at most 8 here).
C4_OriginalBinIndex ==
    pc \in {"classify", "done"} /\ Cardinality(CentreBins) <= TopPeaks =>
        Range(main_freq) = {FreqOfBin(b, samples_len, sample_rate) : b \in CentreBins}

\* C6: every candidate handed to analyze_chord is strictly positive.
C6_CandidatesPositive ==
    pc \in {"classify", "done"} =>
        \A k \in 1..Len(main_freq) : main_freq[k] > 0

====
